---- MODULE Spec2Model ----
(***************************************************************************)
(* A model of claude-code-control.                                         *)
(*                                                                         *)
(* src/index.js (v2.0, Terminal.app driven through AppleScript): the       *)
(* session registry, launch, send, close, the FFmpeg recorder and the      *)
(* prompt watcher.  Every async function is cut at its awaits: the part    *)
(* before an await is one action, the suspended call is a task in `tasks`, *)
(* and each continuation is another action.                                *)
(*   Spec        launch, send, close                                       *)
(*   SpecAttach  launch, startRecording, stopRecording, watchForPrompts,   *)
(*               stopWatching, close                                       *)
(*   SpecWatch   launch, watchForPrompts, stopWatching, the interval       *)
(*               callback of the watcher                                   *)
(*   SpecAll     launch, close, closeAll, and a close that throws          *)
(*                                                                         *)
(* src/unnamed/part_001 (v3, vision based): send and its polling loop,     *)
(* one asynchronous callback per 500 ms tick.                              *)
(*   SpecPoll    send, checkForCompletion                                  *)
(*                                                                         *)
(* src/unnamed/part_003 (v1, `claude code` spawned as a child process):    *)
(* launch, close, closeAll and the 'exit' listener of the process.         *)
(*   SpecExit    launch, close, the exit of the controlling process        *)
(*                                                                         *)
(* src/watcher.js (the standalone watcher): its interval callback.         *)
(*   SpecDetect  the ticks of the watcher                                  *)
(***************************************************************************)
EXTENDS Integers, Sequences, FiniteSets, Bags, TLC

\* ------------------------------------------------------------- bounds

\* launches under Spec (the guard of launch caps sessionCounter)
MaxSessions == 2
\* launches under SpecAttach and SpecWatch
MaxAttachSessions == 1
\* send calls accepted per session (the guard of send caps commandCount)
MaxCommands == 2
\* close calls suspended at the same time on one session
MaxCloses == 1
\* stopRecording calls suspended at the same time on one session
MaxStops == 2
\* ffmpeg processes spawned over a run
MaxProcs == 3
\* setInterval timers created by watchForPrompts over a run
MaxTimers == 2
\* ticks of one prompt watcher timer
MaxTicks == 2
\* the largest timeoutSeconds passed to the polling send
MaxTimeout == 2
\* ticks of checkForCompletion over one send
MaxPollTicks == 7
\* callbacks of checkForCompletion waiting for their OCR at the same time
MaxPending == 2
\* writes of an AppleScript file to /tmp that fail over a run
MaxFaults == 1
\* launches of part_003 (the guard of its launch caps cliCounter)
MaxCliSessions == 2
\* close calls of part_003 suspended at the same time on one session
MaxCliCloses == 1
\* ticks of the standalone watcher
MaxDetectTicks == 4

\* ticks of checkReady in a launch of part_001
MaxStartTicks == 21
\* ticks of one checkAuth interval
MaxAuthTicks == 2
\* callbacks of the launch suspended at the same time
MaxOverlap == 2

\* ------------------------------------------------------------- state

VARIABLES
    \* src/index.js
    sessionCounter, \* let sessionCounter = 0
    sessions,       \* the keys of the Map `sessions`
    session,        \* the session objects created by launch, by id
    tasks,          \* async calls suspended at an await (a bag)
    procs,          \* ffmpeg child processes, by pid
    timers,         \* live setInterval timers of watchForPrompts, by id
    ntimers,        \* timers created so far (an id is never reused)
    pendingEnter,   \* setTimeout(() => pressEnter(), 200) not yet fired (a bag of timer ids)
    front,          \* the session whose Terminal window is the front window (0: none)
    keys,           \* input delivered through System Events, per window
    ret,            \* what the last API call returned or threw
    targets,        \* the Terminal windows `do script` opened, by session: is claude running in it
    closeAllCall,   \* where the closeAll call is, and the ids it has still to close
    faults,         \* fs.writeFileSync calls of runAppleScriptMulti that threw
    \* src/unnamed/part_001
    psession,       \* the session object the polling send works on
    pc,             \* where the send call is: idle, polling, returned
    timeoutSeconds, \* its argument
    attempts,       \* let attempts = 0
    interval,       \* checkForCompletion is scheduled (not cleared)
    pending,        \* callbacks suspended at `await ocrScreenshot(...)`
    shots,          \* what each tick captured
    promptReappeared,
    result,         \* the status send returned, and the tick count then
    \* src/unnamed/part_003
    cliCounter,     \* let sessionCounter = 0
    cliSessions,    \* the keys of its Map `sessions`
    cliProc,        \* the `claude code` child process spawned for each id
    cliTasks,       \* its async calls suspended at an await (a bag)
    exitCall,       \* the controlling process: running or exited, and the
                    \* ids registered when 'exit' was emitted
    \* src/watcher.js
    AUTO_APPROVE,   \* --auto-approve was given
    INTERVAL,       \* --interval, ms
    lastContent,    \* let lastContent = ''
    lastEventTime,  \* let lastEventTime = 0
    lastPromptTime, \* let lastPromptTime = 0
    now,            \* Date.now() at the last tick
    terminalContent, \* what readTerminal returned at the last tick
    effects,        \* what the ticks did: approvePrompt and sendEvent calls
    \* launch of src/unnamed/part_001 and of src/test-v2.js
    launchCall,     \* which of the two launch was called, and where the call is
    started,        \* the session object of that launch: sessionReady, how often
                    \* sessions.set was called with it, and the lines written
                    \* to the stdin of its process
    checkReady,     \* the interval checkReady is scheduled (not cleared)
    checkAuth,      \* the checkAuth intervals created, in order: scheduled or
                    \* cleared, and `let authAttempts`
    startupTimeout, \* the fallback setTimeout has not fired yet
    startAttempts,  \* part_001: `let attempts = 0` of launch
    callbacks       \* callbacks suspended at an await, and setTimeout(..., 300)
                    \* of test-v2.js not yet fired

ivars == <<sessionCounter, sessions, session, tasks, procs, timers, ntimers,
           pendingEnter, front, keys, ret, targets, closeAllCall,
           faults>>
pvars == <<psession, pc, timeoutSeconds, attempts, interval, pending, shots,
           promptReappeared, result>>
cvars == <<cliCounter, cliSessions, cliProc, cliTasks, exitCall>>
wvars == <<AUTO_APPROVE, INTERVAL, lastContent, lastEventTime, lastPromptTime, now,
           terminalContent, effects>>
svars == <<launchCall, started, checkReady, checkAuth, startupTimeout, startAttempts,
           callbacks>>
vars == <<ivars, pvars, cvars, wvars, svars>>

\* ------------------------------------------------------------- index.js

\* Session ids a caller may pass: every id launch can issue and one it never issues.
Ids == 1..(MaxSessions + 1)

\* `null`
Null == 0

\* The object literal of launch.
NewSession ==
    [commandCount |-> 0, sessionLog |-> <<>>, ready |-> FALSE,
     recording |-> Null, watcher |-> Null]

Task(op, sid, at, proc) == [op |-> op, sid |-> sid, at |-> at, proc |-> proc]

BagOf(t, n) == IF n = 0 THEN EmptyBag ELSE [x \in {t} |-> n]
Suspend(t) == tasks (+) BagOf(t, 1)
Resume(t) == tasks (-) BagOf(t, 1)

Returns(op, sid, out) == [op |-> op, sid |-> sid, out |-> out]

\* Input goes to whatever window is in front: focusTerminal only activates
\* Terminal.app and re-fronts its front window, then System Events types.
Typed(n) == [keys EXCEPT ![front] = @ + n]

\* The suspended calls of one kind on one session.
InFlight(op, sid) ==
    LET ts == {t \in BagToSet(tasks) : t.op = op /\ t.sid = sid}
        n[S \in SUBSET ts] ==
            IF S = {} THEN 0
            ELSE LET t == CHOOSE x \in S : TRUE IN CopiesIn(t, tasks) + n[S \ {t}]
    IN n[ts]

\* getStatus (the fields the properties read); found is FALSE for its null.
getStatus(sid) ==
    IF sid \in sessions
    THEN [found |-> TRUE,
          commands_sent |-> session[sid].commandCount,
          ready |-> session[sid].ready,
          logEntries |-> Len(session[sid].sessionLog),
          recording |-> session[sid].recording # Null,
          watching |-> session[sid].watcher # Null]
    ELSE [found |-> FALSE]


\* closeAll has not been called. `called` is what sessionCounter was at the
\* call: the launches invoked before it are those of the ids up to it.
NoCloseAll == [pc |-> "idle", ids |-> {}, cur |-> Null, called |-> 0]

\* part_003: 'exit' has not been emitted.
NotExited == [pc |-> "running", ids |-> {}]

\* watcher.js: what readTerminal returns when osascript fails ('').
NoText == [v |-> 0, matches |-> {}]

\* watcher.js: Date.now() when the watcher is started, ms.
StartTime == 100000

\* launch has not been called.
NotLaunched == [variant |-> "none", pc |-> "idle"]

\* sessionReady: false in the object literal of launch; not yet in the Map;
\* nothing written to the stdin of the process.
NoSession == [sessionReady |-> FALSE, registered |-> 0, stdin |-> 0]

\* part_001: send has not returned.
NoResult == [status |-> "none", attempts |-> 0, tick |-> 0]

\* index.js as loaded; no session of part_001 and no send of it.
Init ==
    /\ sessionCounter = 0
    /\ sessions = {}
    /\ session = <<>>
    /\ tasks = EmptyBag
    /\ procs = <<>>
    /\ timers = <<>>
    /\ ntimers = 0
    /\ pendingEnter = EmptyBag
    /\ front = 0
    /\ keys = [w \in 0..MaxSessions |-> 0]
    /\ ret = Returns("none", 0, "none")
    /\ targets = <<>>
    /\ closeAllCall = NoCloseAll
    /\ faults = 0
    /\ psession = [registered |-> FALSE, sessionReady |-> TRUE,
                   commandCount |-> 0, sessionLog |-> <<>>]
    /\ pc = "idle"
    /\ timeoutSeconds = 0
    /\ attempts = 0
    /\ interval = FALSE
    /\ pending = {}
    /\ shots = <<>>
    /\ promptReappeared = FALSE
    /\ result = NoResult
    /\ cliCounter = 0
    /\ cliSessions = {}
    /\ cliProc = <<>>
    /\ cliTasks = EmptyBag
    /\ exitCall = NotExited
    /\ AUTO_APPROVE = FALSE
    /\ INTERVAL = 3000
    /\ lastContent = NoText
    /\ lastEventTime = 0
    /\ lastPromptTime = 0
    /\ now = StartTime
    /\ terminalContent = NoText
    /\ effects = <<>>
    /\ launchCall = NotLaunched
    /\ started = NoSession
    /\ checkReady = FALSE
    /\ checkAuth = <<>>
    /\ startupTimeout = FALSE
    /\ startAttempts = 0
    /\ callbacks = {}

\* ---- launch

\* NextSessionId gone wrong: the smallest id not in the Map.
ReusedSessionId == Cardinality(sessions) + 1

\* const sessionId = ++sessionCounter
NextSessionId == sessionCounter + 1

\* LaunchPathMissing gone wrong: the path is checked after `do script`.
LaunchPathCheckedLate(max) ==
    /\ sessionCounter < max
    /\ sessionCounter' = NextSessionId
    /\ targets' = (NextSessionId :> "running") @@ targets
    /\ front' = NextSessionId
    /\ ret' = Returns("launch", NextSessionId, "throw")
    /\ UNCHANGED <<sessions, session, tasks, procs, timers, ntimers, pendingEnter, keys>>
    /\ UNCHANGED <<closeAllCall, faults, pvars, cvars, wvars, svars>>

\* The id is taken before the path is checked: a failed launch uses one up.
LaunchPathMissing(max) ==
    /\ sessionCounter < max
    /\ sessionCounter' = NextSessionId
    /\ ret' = Returns("launch", NextSessionId, "throw")
    /\ UNCHANGED <<sessions, session, tasks, procs, timers, ntimers, pendingEnter,
                   front, keys>>
    /\ UNCHANGED <<targets, closeAllCall, faults, pvars, cvars, wvars, svars>>

\* LaunchBegin gone wrong: the session is put in the Map when it is made,
\* before the wait.
LaunchRegisteredEarly(max) ==
    /\ sessionCounter < max
    /\ \E opened \in BOOLEAN :
        LET sid == NextSessionId IN
        /\ sessionCounter' = sid
        /\ session' = (sid :> NewSession) @@ session
        /\ sessions' = sessions \cup {sid}
        /\ front' = IF opened THEN sid ELSE front
        /\ targets' = IF opened THEN (sid :> "running") @@ targets ELSE targets
        /\ tasks' = Suspend(Task("launch", sid, "starting", Null))
    /\ UNCHANGED <<procs, timers, ntimers, pendingEnter, keys, ret>>
    /\ UNCHANGED <<closeAllCall, faults, pvars, cvars, wvars, svars>>

\* `do script` opens a new window, which becomes the front window; an
\* AppleScript error is swallowed by runAppleScriptMulti and launch goes on.
LaunchBegin(max) ==
    /\ sessionCounter < max
    /\ \E opened \in BOOLEAN :
        LET sid == NextSessionId IN
        /\ sessionCounter' = sid
        /\ session' = (sid :> NewSession) @@ session
        /\ front' = IF opened THEN sid ELSE front
        /\ targets' = IF opened THEN (sid :> "running") @@ targets ELSE targets
        /\ tasks' = Suspend(Task("launch", sid, "starting", Null))
    /\ UNCHANGED <<sessions, procs, timers, ntimers, pendingEnter, keys, ret>>
    /\ UNCHANGED <<closeAllCall, faults, pvars, cvars, wvars, svars>>

\* After the 5 s wait: screenshot (it may fail), ready, registration.
LaunchEnd ==
    /\ \E t \in BagToSet(tasks), shot \in BOOLEAN :
        /\ t.op = "launch"
        /\ session' = [session EXCEPT ![t.sid] =
               [@ EXCEPT !.sessionLog = IF shot THEN Append(@, "screenshot") ELSE @,
                         !.ready = TRUE]]
        /\ sessions' = sessions \cup {t.sid}
        /\ tasks' = Resume(t)
        /\ ret' = Returns("launch", t.sid, "ok")
    /\ UNCHANGED <<sessionCounter, procs, timers, ntimers, pendingEnter, front, keys>>
    /\ UNCHANGED <<targets, closeAllCall, faults, pvars, cvars, wvars, svars>>

\* `claude code` exits in its window, told to or not; Terminal keeps the
\* window, with the shell that ran it.
TargetExit ==
    /\ \E sid \in DOMAIN targets :
        /\ targets[sid] = "running"
        /\ targets' = [targets EXCEPT ![sid] = "exited"]
    /\ UNCHANGED <<sessionCounter, sessions, session, tasks, procs, timers, ntimers,
                   pendingEnter, front, keys, ret>>
    /\ UNCHANGED <<closeAllCall, faults, pvars, cvars, wvars, svars>>

\* ---- send

\* SendInvalid gone wrong: the command is typed before the session is looked up.
SendInvalidTyped ==
    /\ \E sid \in Ids :
        /\ sid \notin sessions
        /\ ret' = Returns("send", sid, "throw")
    /\ keys' = Typed(1)
    /\ UNCHANGED <<sessionCounter, sessions, session, tasks, procs, timers, ntimers,
                   pendingEnter, front>>
    /\ UNCHANGED <<targets, closeAllCall, faults, pvars, cvars, wvars, svars>>

\* if (!session) throw new Error(`Invalid session: ...`)
SendInvalid ==
    /\ \E sid \in Ids :
        /\ sid \notin sessions
        /\ ret' = Returns("send", sid, "throw")
    /\ UNCHANGED <<sessionCounter, sessions, session, tasks, procs, timers, ntimers,
                   pendingEnter, front, keys>>
    /\ UNCHANGED <<targets, closeAllCall, faults, pvars, cvars, wvars, svars>>

\* SendBegin gone wrong: the command is logged and not counted.
SendUncounted ==
    /\ \E sid \in sessions :
        /\ Len(session[sid].sessionLog) < 2 * MaxCommands
        /\ session' = [session EXCEPT ![sid] =
               [@ EXCEPT !.sessionLog = Append(@, "command")]]
        /\ tasks' = Suspend(Task("send", sid, "typed", Null))
    /\ keys' = Typed(1)
    /\ UNCHANGED <<sessionCounter, sessions, procs, timers, ntimers, pendingEnter,
                   front, ret>>
    /\ UNCHANGED <<targets, closeAllCall, faults, pvars, cvars, wvars, svars>>

\* Up to the first await: count, log, focus, type.  Nothing looks at the
\* calls already suspended on the session.
SendBegin ==
    /\ \E sid \in sessions :
        /\ session[sid].commandCount < MaxCommands
        /\ session' = [session EXCEPT ![sid] =
               [@ EXCEPT !.commandCount = @ + 1,
                         !.sessionLog = Append(@, "command")]]
        /\ tasks' = Suspend(Task("send", sid, "typed", Null))
    /\ keys' = Typed(1)
    /\ UNCHANGED <<sessionCounter, sessions, procs, timers, ntimers, pendingEnter,
                   front, ret>>
    /\ UNCHANGED <<targets, closeAllCall, faults, pvars, cvars, wvars, svars>>

\* After the 200 ms: Enter, then the wait of waitSeconds.
SendEnter ==
    /\ \E t \in BagToSet(tasks) :
        /\ t.op = "send" /\ t.at = "typed"
        /\ tasks' = Resume(t) (+) BagOf(Task("send", t.sid, "waiting", Null), 1)
    /\ keys' = Typed(1)
    /\ UNCHANGED <<sessionCounter, sessions, session, procs, timers, ntimers,
                   pendingEnter, front, ret>>
    /\ UNCHANGED <<targets, closeAllCall, faults, pvars, cvars, wvars, svars>>

\* After waitSeconds: screenshot, the response entry, the result.  The call
\* holds the session object, so it ends the same way when the session has
\* been closed meanwhile.
SendEnd ==
    /\ \E t \in BagToSet(tasks) :
        /\ t.op = "send" /\ t.at = "waiting"
        /\ session' = [session EXCEPT ![t.sid] =
               [@ EXCEPT !.sessionLog = Append(@, "response")]]
        /\ tasks' = Resume(t)
        /\ ret' = Returns("send", t.sid, "sent")
    /\ UNCHANGED <<sessionCounter, sessions, procs, timers, ntimers, pendingEnter,
                   front, keys>>
    /\ UNCHANGED <<targets, closeAllCall, faults, pvars, cvars, wvars, svars>>

\* ---- startRecording / stopRecording

\* The ffmpeg processes capturing for a session: spawned for it and not yet
\* told to stop.
RecordersOf(sid) ==
    {p \in DOMAIN procs : procs[p].sid = sid /\ procs[p].state = "recording"}

StartRecordingInvalid ==
    /\ \E sid \in Ids :
        /\ sid \notin sessions
        /\ ret' = Returns("startRecording", sid, "throw")
    /\ UNCHANGED <<sessionCounter, sessions, session, tasks, procs, timers, ntimers,
                   pendingEnter, front, keys>>
    /\ UNCHANGED <<targets, closeAllCall, faults, pvars, cvars, wvars, svars>>

\* if (session.recording) throw ... is already recording
RecordingGuard(sid) == session[sid].recording # Null

\* The bounds are not looked at.
BoundsUnchecked(bounds) == FALSE

\* if (!bounds) throw ... Could not determine Terminal window bounds
BoundsGuard(bounds) == ~bounds

\* startRecording has no await: it runs to its end in one turn.  bounds is
\* null when the AppleScript that reads the window bounds fails.
StartRecording ==
    /\ \E sid \in sessions, bounds \in BOOLEAN :
        /\ Cardinality(DOMAIN procs) < MaxProcs
        /\ IF RecordingGuard(sid) \/ BoundsGuard(bounds)
           THEN /\ ret' = Returns("startRecording", sid, "throw")
                /\ UNCHANGED <<session, procs>>
           ELSE LET p == Cardinality(DOMAIN procs) + 1 IN
                /\ procs' = procs @@ (p :> [sid |-> sid, state |-> "recording", bounds |-> bounds])
                /\ session' = [session EXCEPT ![sid] = [@ EXCEPT !.recording = p]]
                /\ ret' = Returns("startRecording", sid, "ok")
    /\ UNCHANGED <<sessionCounter, sessions, tasks, timers, ntimers, pendingEnter,
                   front, keys>>
    /\ UNCHANGED <<targets, closeAllCall, faults, pvars, cvars, wvars, svars>>

StopRecordingInvalid ==
    /\ \E sid \in Ids :
        /\ IF sid \in sessions THEN session[sid].recording = Null ELSE TRUE
        /\ ret' = Returns("stopRecording", sid, "throw")
    /\ UNCHANGED <<sessionCounter, sessions, session, tasks, procs, timers, ntimers,
                   pendingEnter, front, keys>>
    /\ UNCHANGED <<targets, closeAllCall, faults, pvars, cvars, wvars, svars>>

\* Told to stop: 'q' on stdin (a write that fails is swallowed).
ToldToStop(p) ==
    [procs EXCEPT ![p] = [@ EXCEPT !.state = IF @ \in {"closed", "killed"} THEN @ ELSE "stopping"]]

\* The process is left as it is at the end of the 5 s.
NotKilled(p) == procs

\* ffmpegProcess.kill('SIGTERM') at the end of the 5 s (in a try: nothing
\* is thrown for a process that has exited).
Killed(p) ==
    [procs EXCEPT ![p] = [@ EXCEPT !.state = IF @ = "closed" THEN @ ELSE "killed"]]

\* session.recording = null, whatever it holds by then
Released(sid) == [session EXCEPT ![sid] = [@ EXCEPT !.recording = Null]]

\* Up to the await: the handle is read from the session, 'q' is written,
\* and the call waits for the 'close' of that process, at most 5 s.
StopRecordingBegin ==
    /\ \E sid \in sessions :
        /\ session[sid].recording # Null
        /\ InFlight("stopRecording", sid) < MaxStops
        /\ procs' = ToldToStop(session[sid].recording)
        /\ tasks' = Suspend(Task("stopRecording", sid, "closing", session[sid].recording))
    /\ UNCHANGED <<sessionCounter, sessions, session, timers, ntimers,
                   pendingEnter, front, keys, ret>>
    /\ UNCHANGED <<targets, closeAllCall, faults, pvars, cvars, wvars, svars>>

\* The 5 s passed: SIGTERM, and this call goes on without waiting further.
StopRecordingTimeout ==
    /\ \E t \in BagToSet(tasks) :
        /\ t.op = "stopRecording"
        /\ procs' = Killed(t.proc)
        /\ session' = Released(t.sid)
        /\ tasks' = Resume(t)
        /\ ret' = Returns("stopRecording", t.sid, "ok")
    /\ UNCHANGED <<sessionCounter, sessions, timers, ntimers, pendingEnter, front, keys>>
    /\ UNCHANGED <<targets, closeAllCall, faults, pvars, cvars, wvars, svars>>

\* The calls waiting for the 'close' of process p.
WaitingOn(p) == {t \in BagToSet(tasks) : t.proc = p}

\* A waiting close goes on after its stopRecording: focus, Escape, the 500 ms wait.
Escaped(sid) == Task("close", sid, "escaped", Null)

\* A call of close: made by the caller, or by closeAll (`await close(id)`).
IsClose(t) == t.op \in {"close", "closeAll"}

\* The same for either kind of close call.
GoesOn(t) == Task(t.op, t.sid, "escaped", Null)

\* What is suspended once every call in ts (all its copies) has gone on.
Continued(ts) ==
    [t \in (BagToSet(tasks) \ ts) \cup {GoesOn(c) : c \in {x \in ts : IsClose(x)}} |->
        IF \E c \in ts : IsClose(c) /\ GoesOn(c) = t
        THEN LET c == CHOOSE x \in ts : IsClose(x) /\ GoesOn(x) = t
             IN CopiesIn(c, tasks) + CopiesIn(t, tasks)
        ELSE CopiesIn(t, tasks)]

\* The Escape keys of the closes in ts.
Escapes(ts) ==
    LET cs == {t \in ts : IsClose(t)}
        n[S \in SUBSET cs] ==
            IF S = {} THEN 0
            ELSE LET t == CHOOSE x \in S : TRUE IN CopiesIn(t, tasks) + n[S \ {t}]
    IN n[cs]

\* ffmpeg exits, told to or not: 'close' is emitted, and every call waiting
\* for it goes on in the same turn: session.recording = null, and a close
\* goes on to Escape.
ProcClose ==
    /\ \E p \in DOMAIN procs :
        LET ts == WaitingOn(p) IN
        /\ procs[p].state # "closed"
        /\ procs' = [procs EXCEPT ![p] = [@ EXCEPT !.state = "closed"]]
        /\ session' = IF ts = {} THEN session ELSE Released(procs[p].sid)
        /\ tasks' = Continued(ts)
        /\ keys' = Typed(Escapes(ts))
        /\ ret' = IF \E t \in ts : t.op = "stopRecording"
                  THEN Returns("stopRecording", procs[p].sid, "ok")
                  ELSE ret
    /\ UNCHANGED <<sessionCounter, sessions, timers, ntimers, pendingEnter, front>>
    /\ UNCHANGED <<targets, closeAllCall, faults, pvars, cvars, wvars, svars>>

\* ---- watchForPrompts / stopWatching

\* What readTerminalContent returned, as far as the callback tells contents
\* apart: which text it is (v; 0 is the empty string) and which entries of
\* allPatterns match its last 10 lines (6 built in, the caller's from 7 on).
NoMatch == 0
YnPrompt == 2
PressToContinue == 5
CallerPattern == 7
EmptyContent == [v |-> 0, shows |-> {}]
Contents ==
    {EmptyContent} \cup
    [v : 1..2, shows : {{}, {YnPrompt}, {PressToContinue, CallerPattern}}]

\* FirstMatch gone wrong: the last matching entry wins.
LastMatch(content, npatterns) ==
    LET hits == {i \in content.shows : i <= npatterns}
    IN IF hits = {} THEN NoMatch ELSE CHOOSE i \in hits : \A j \in hits : i >= j

\* for (... of allPatterns) if (pattern.test(recent)) { ...; break }
FirstMatch(content, npatterns) ==
    LET hits == {i \in content.shows : i <= npatterns}
    IN IF hits = {} THEN NoMatch ELSE CHOOSE i \in hits : \A j \in hits : i <= j

WatchInvalid ==
    /\ \E sid \in Ids :
        /\ sid \notin sessions
        /\ ret' = Returns("watchForPrompts", sid, "throw")
    /\ UNCHANGED <<sessionCounter, sessions, session, tasks, procs, timers, ntimers,
                   pendingEnter, front, keys>>
    /\ UNCHANGED <<targets, closeAllCall, faults, pvars, cvars, wvars, svars>>

\* WatcherGuard gone wrong: no check.
NoWatcherGuard(sid) == FALSE

\* if (session.watcher) throw ... already has an active watcher
WatcherGuard(sid) == session[sid].watcher # Null

\* options: intervalMs (default 2000), patterns (none, or one more entry)
IntervalChoices == {1000, 2000}
WatchForPrompts ==
    /\ \E sid \in sessions, ms \in IntervalChoices, extra \in 0..1 :
        /\ ntimers < MaxTimers
        /\ IF WatcherGuard(sid)
           THEN /\ ret' = Returns("watchForPrompts", sid, "throw")
                /\ UNCHANGED <<session, timers, ntimers>>
           ELSE LET id == ntimers + 1 IN
                /\ ntimers' = id
                /\ timers' = timers @@
                       (id :> [sid |-> sid, intervalMs |-> ms, npatterns |-> 6 + extra,
                               lastSeenContent |-> EmptyContent, ticks |-> 0,
                               responded |-> {}])
                /\ session' = [session EXCEPT ![sid] = [@ EXCEPT !.watcher = id]]
                /\ ret' = Returns("watchForPrompts", sid, "ok")
    /\ UNCHANGED <<sessionCounter, sessions, tasks, procs, pendingEnter, front, keys>>
    /\ UNCHANGED <<targets, closeAllCall, faults, pvars, cvars, wvars, svars>>

\* The timer is left scheduled.
NotCleared(id) == timers

\* clearInterval
Cleared(id) == [i \in DOMAIN timers \ {id} |-> timers[i]]

StopWatching ==
    /\ \E sid \in Ids :
        IF sid \notin sessions
        THEN /\ ret' = Returns("stopWatching", sid, "throw")
             /\ UNCHANGED <<session, timers>>
        ELSE IF session[sid].watcher = Null
        THEN /\ ret' = Returns("stopWatching", sid, "ok")
             /\ UNCHANGED <<session, timers>>
        ELSE /\ timers' = Cleared(session[sid].watcher)
             /\ session' = [session EXCEPT ![sid] = [@ EXCEPT !.watcher = Null]]
             /\ ret' = Returns("stopWatching", sid, "ok")
    /\ UNCHANGED <<sessionCounter, sessions, tasks, procs, ntimers, pendingEnter,
                   front, keys>>
    /\ UNCHANGED <<targets, closeAllCall, faults, pvars, cvars, wvars, svars>>

\* One run of the interval callback.  `responded` keeps, for the ticks that
\* auto-responded, the entry of allPatterns answered.
WatcherTick ==
    /\ \E id \in DOMAIN timers, content \in Contents :
        LET w == timers[id]
            hit == FirstMatch(content, w.npatterns)
            seen == [w EXCEPT !.ticks = @ + 1]
        IN
        /\ w.ticks < MaxTicks
        /\ IF content = EmptyContent \/ content = w.lastSeenContent
           THEN /\ timers' = [timers EXCEPT ![id] = seen]
                /\ UNCHANGED <<keys, pendingEnter>>
           ELSE IF hit = NoMatch
           THEN /\ timers' = [timers EXCEPT ![id] = [seen EXCEPT !.lastSeenContent = content]]
                /\ UNCHANGED <<keys, pendingEnter>>
           ELSE /\ timers' = [timers EXCEPT ![id] =
                       [seen EXCEPT !.lastSeenContent = content,
                                    !.responded = @ \cup {<<w.ticks + 1, hit>>}]]
                /\ keys' = Typed(1)
                /\ pendingEnter' = IF hit = PressToContinue
                                   THEN pendingEnter
                                   ELSE pendingEnter (+) BagOf(id, 1)
    /\ UNCHANGED <<sessionCounter, sessions, session, tasks, procs, ntimers, front, ret>>
    /\ UNCHANGED <<targets, closeAllCall, faults, pvars, cvars, wvars, svars>>

\* setTimeout(() => pressEnter(), 200): stopWatching does not cancel it.
WatcherEnter ==
    /\ \E id \in BagToSet(pendingEnter) :
        pendingEnter' = pendingEnter (-) BagOf(id, 1)
    /\ keys' = Typed(1)
    /\ UNCHANGED <<sessionCounter, sessions, session, tasks, procs, timers, ntimers,
                   front, ret>>
    /\ UNCHANGED <<targets, closeAllCall, faults, pvars, cvars, wvars, svars>>

\* ---- close

\* CloseUnknown gone wrong: an unknown id is an error.
CloseUnknownThrows ==
    /\ \E sid \in Ids :
        /\ sid \notin sessions
        /\ ret' = Returns("close", sid, "throw")
    /\ UNCHANGED <<sessionCounter, sessions, session, tasks, procs, timers, ntimers,
                   pendingEnter, front, keys>>
    /\ UNCHANGED <<targets, closeAllCall, faults, pvars, cvars, wvars, svars>>

\* if (!session) return
CloseUnknown ==
    /\ \E sid \in Ids :
        /\ sid \notin sessions
        /\ ret' = Returns("close", sid, "ok")
    /\ UNCHANGED <<sessionCounter, sessions, session, tasks, procs, timers, ntimers,
                   pendingEnter, front, keys>>
    /\ UNCHANGED <<targets, closeAllCall, faults, pvars, cvars, wvars, svars>>

\* Up to the first await.  The watcher is stopped at once; with a recording
\* the call waits inside stopRecording ('q' written, the 'close' awaited),
\* else it focuses, presses Escape and waits 500 ms.
CloseBegin ==
    /\ \E sid \in sessions :
        LET s == session[sid] IN
        /\ InFlight("close", sid) < MaxCloses
        /\ timers' = IF s.watcher # Null THEN Cleared(s.watcher) ELSE timers
        /\ session' = [session EXCEPT ![sid] = [@ EXCEPT !.watcher = Null]]
        /\ IF s.recording # Null
           THEN /\ procs' = ToldToStop(s.recording)
                /\ tasks' = Suspend(Task("close", sid, "closing", s.recording))
                /\ UNCHANGED keys
           ELSE /\ tasks' = Suspend(Escaped(sid))
                /\ keys' = Typed(1)
                /\ UNCHANGED procs
    /\ UNCHANGED <<sessionCounter, sessions, ntimers, pendingEnter, front, ret>>
    /\ UNCHANGED <<targets, closeAllCall, faults, pvars, cvars, wvars, svars>>

\* The 5 s of the stopRecording that close awaits passed: SIGTERM,
\* session.recording = null, and close goes on to Escape.
CloseStopTimeout ==
    /\ \E t \in BagToSet(tasks) :
        /\ IsClose(t) /\ t.at = "closing"
        /\ procs' = Killed(t.proc)
        /\ session' = Released(t.sid)
        /\ tasks' = Resume(t) (+) BagOf(GoesOn(t), 1)
    /\ keys' = Typed(1)
    /\ UNCHANGED <<sessionCounter, sessions, timers, ntimers, pendingEnter, front, ret>>
    /\ UNCHANGED <<targets, closeAllCall, faults, pvars, cvars, wvars, svars>>

\* After the 500 ms: '/exit', Enter, sessions.delete.
CloseEnd ==
    /\ \E t \in BagToSet(tasks) :
        /\ t.op = "close" /\ t.at = "escaped"
        /\ sessions' = sessions \ {t.sid}
        /\ tasks' = Resume(t)
        /\ ret' = Returns("close", t.sid, "ok")
    /\ keys' = Typed(2)
    /\ UNCHANGED <<sessionCounter, session, procs, timers, ntimers, pendingEnter, front>>
    /\ UNCHANGED <<targets, closeAllCall, faults, pvars, cvars, wvars, svars>>

\* runAppleScriptMulti writes the script to a file in /tmp before its try:
\* when that write fails the error is thrown to the caller, where an error
\* of osascript itself is caught and logged.  close catches nothing.

\* close, the watcher stopped and no recording: focusTerminal throws.
CloseFocusThrows ==
    /\ faults < MaxFaults
    /\ faults' = faults + 1
    /\ \E sid \in sessions :
        /\ session[sid].recording = Null
        /\ timers' = IF session[sid].watcher # Null THEN Cleared(session[sid].watcher) ELSE timers
        /\ session' = [session EXCEPT ![sid] = [@ EXCEPT !.watcher = Null]]
        /\ ret' = Returns("close", sid, "throw")
    /\ UNCHANGED <<sessionCounter, sessions, tasks, procs, ntimers, pendingEnter, front, keys>>
    /\ UNCHANGED <<targets, closeAllCall, pvars, cvars, wvars, svars>>

\* close after the 500 ms: typeText('/exit') throws; sessions.delete is not reached.
CloseExitThrows ==
    /\ faults < MaxFaults
    /\ faults' = faults + 1
    /\ \E t \in BagToSet(tasks) :
        /\ t.op = "close" /\ t.at = "escaped"
        /\ tasks' = Resume(t)
        /\ ret' = Returns("close", t.sid, "throw")
    /\ UNCHANGED <<sessionCounter, sessions, session, procs, timers, ntimers, pendingEnter,
                   front, keys>>
    /\ UNCHANGED <<targets, closeAllCall, pvars, cvars, wvars, svars>>

\* ---- closeAll

\* for (const id of Array.from(sessions.keys())): the next id of the array
\* that is still registered (close returns at once for the others).  The
\* Map keeps the keys in the order of registration, which is the order of
\* the ids.
NextToClose(ids, registered) ==
    LET left == {id \in ids : id > closeAllCall.cur} \cap registered
    IN IF left = {} THEN Null ELSE CHOOSE id \in left : \A other \in left : id <= other

\* close(id) called by closeAll, up to its first await, in a turn in which
\* k keys were typed already and `base` is suspended.
InnerClose(sid, base, k) ==
    LET s == session[sid] IN
    /\ timers' = IF s.watcher # Null THEN Cleared(s.watcher) ELSE timers
    /\ session' = [session EXCEPT ![sid] = [@ EXCEPT !.watcher = Null]]
    /\ IF s.recording # Null
       THEN /\ procs' = ToldToStop(s.recording)
            /\ tasks' = base (+) BagOf(Task("closeAll", sid, "closing", s.recording), 1)
            /\ keys' = Typed(k)
       ELSE /\ tasks' = base (+) BagOf(Task("closeAll", sid, "escaped", Null), 1)
            /\ keys' = Typed(k + 1)
            /\ UNCHANGED procs

\* The loop of closeAll with `registered` in the Map: the next close, or the return.
Loop(ids, registered, base, k) ==
    LET next == NextToClose(ids, registered)
        called == IF closeAllCall.pc = "idle" THEN sessionCounter ELSE closeAllCall.called
    IN
    IF next = Null
    THEN /\ closeAllCall' = [pc |-> "done", ids |-> ids, cur |-> closeAllCall.cur,
                             called |-> called]
         /\ ret' = Returns("closeAll", Null, "ok")
         /\ tasks' = base
         /\ keys' = Typed(k)
         /\ UNCHANGED <<session, timers, procs>>
    ELSE /\ closeAllCall' = [pc |-> "closing", ids |-> ids, cur |-> next, called |-> called]
         /\ InnerClose(next, base, k)
         /\ UNCHANGED ret

\* closeAll, up to the first await of its first close.
CloseAll ==
    /\ closeAllCall.pc = "idle"
    /\ Loop(sessions, sessions, tasks, 0)
    /\ UNCHANGED <<sessionCounter, sessions, ntimers, pendingEnter, front>>
    /\ UNCHANGED <<targets, faults, pvars, cvars, wvars, svars>>

\* The close that closeAll awaits, after its 500 ms: '/exit', Enter,
\* sessions.delete; closeAll goes on with the next id in the same turn.
CloseAllNext ==
    /\ \E t \in BagToSet(tasks) :
        /\ t.op = "closeAll" /\ t.at = "escaped"
        /\ sessions' = sessions \ {t.sid}
        /\ Loop(closeAllCall.ids, sessions \ {t.sid}, Resume(t), 2)
    /\ UNCHANGED <<sessionCounter, ntimers, pendingEnter, front>>
    /\ UNCHANGED <<targets, faults, pvars, cvars, wvars, svars>>

\* The close that closeAll awaits throws at typeText('/exit'): closeAll has
\* no try around `await close(id)` and is rejected with it.
CloseAllThrows ==
    /\ faults < MaxFaults
    /\ faults' = faults + 1
    /\ \E t \in BagToSet(tasks) :
        /\ t.op = "closeAll" /\ t.at = "escaped"
        /\ tasks' = Resume(t)
    /\ closeAllCall' = [closeAllCall EXCEPT !.pc = "threw"]
    /\ ret' = Returns("closeAll", Null, "throw")
    /\ UNCHANGED <<sessionCounter, sessions, session, procs, timers, ntimers, pendingEnter,
                   front, keys>>
    /\ UNCHANGED <<targets, pvars, cvars, wvars, svars>>

\* ------------------------------------------------------------- part_001

\* What a tick captured: path is false when takeScreenshot returned null;
\* text is what ocrScreenshot makes of the image, a sequence of characters
\* ('' without an API key or when the request fails).  "U+276F" stands for
\* the heavy right-pointing angle quotation mark of the Claude Code prompt.
NoScreenshot == [path |-> FALSE, text |-> <<>>]
Texts == {<<>>, <<"o", "k">>, <<"U+276F", " ">>, <<"a", ">", "b">>}
Screenshots == {NoScreenshot} \cup [path : {TRUE}, text : Texts]

\* ocrText.includes(c)
includes(text, c) == \E i \in 1..Len(text) : text[i] = c

isPromptVisible(ocrText) == includes(ocrText, "U+276F") \/ includes(ocrText, ">")

\* CompletionGuard gone wrong: the first tick may complete the send.
AnyAttempt(n) == n > 0

\* CompletionGuard gone wrong: one more tick is skipped.
AfterThree(n) == n > 3

\* ... && attempts > 2
CompletionGuard(n) == n > 2

\* const maxAttempts = (timeoutSeconds * 2)
maxAttempts == timeoutSeconds * 2

\* status: promptReappeared ? 'success' : 'incomplete'
Status(reappeared) == IF reappeared THEN "success" ELSE "incomplete"


\* part_001 after launch (the session registered and ready) or with no
\* session; index.js as loaded.
PollInit ==
    /\ sessionCounter = 0
    /\ sessions = {}
    /\ session = <<>>
    /\ tasks = EmptyBag
    /\ procs = <<>>
    /\ timers = <<>>
    /\ ntimers = 0
    /\ pendingEnter = EmptyBag
    /\ front = 0
    /\ keys = [w \in 0..MaxSessions |-> 0]
    /\ ret = Returns("none", 0, "none")
    /\ targets = <<>>
    /\ closeAllCall = NoCloseAll
    /\ faults = 0
    /\ psession \in [registered : BOOLEAN, sessionReady : {TRUE},
                     commandCount : {0}, sessionLog : {<<>>}]
    /\ pc = "idle"
    /\ timeoutSeconds = 0
    /\ attempts = 0
    /\ interval = FALSE
    /\ pending = {}
    /\ shots = <<>>
    /\ promptReappeared = FALSE
    /\ result = NoResult
    /\ cliCounter = 0
    /\ cliSessions = {}
    /\ cliProc = <<>>
    /\ cliTasks = EmptyBag
    /\ exitCall = NotExited
    /\ AUTO_APPROVE = FALSE
    /\ INTERVAL = 3000
    /\ lastContent = NoText
    /\ lastEventTime = 0
    /\ lastPromptTime = 0
    /\ now = StartTime
    /\ terminalContent = NoText
    /\ effects = <<>>
    /\ launchCall = NotLaunched
    /\ started = NoSession
    /\ checkReady = FALSE
    /\ checkAuth = <<>>
    /\ startupTimeout = FALSE
    /\ startAttempts = 0
    /\ callbacks = {}

\* if (!session) throw new Error(`Invalid session: ...`)
PollSendInvalid ==
    /\ pc = "idle"
    /\ ~psession.registered
    /\ pc' = "threw"
    /\ UNCHANGED <<psession, timeoutSeconds, attempts, interval, pending, shots,
                   promptReappeared, result>>
    /\ UNCHANGED <<ivars, cvars, wvars, svars>>

\* Up to the await of the polling promise: count, log, write the command,
\* schedule checkForCompletion every 500 ms.
PollSend ==
    /\ pc = "idle"
    /\ psession.registered /\ psession.sessionReady
    /\ \E n \in 1..MaxTimeout : timeoutSeconds' = n
    /\ psession' = [psession EXCEPT !.commandCount = @ + 1,
                                    !.sessionLog = Append(@, "command")]
    /\ pc' = "polling"
    /\ attempts' = 0
    /\ interval' = TRUE
    /\ promptReappeared' = FALSE
    /\ UNCHANGED <<pending, shots, result>>
    /\ UNCHANGED <<ivars, cvars, wvars, svars>>

\* resolve() and what send does next: status, the response entry, return.
\* A promise resolves once: a later resolve() changes nothing.
Resolved(reappeared, tick) ==
    IF pc = "polling"
    THEN /\ pc' = "returned"
         /\ result' = [status |-> Status(reappeared), attempts |-> attempts, tick |-> tick]
         /\ psession' = [psession EXCEPT !.sessionLog = Append(@, "response")]
    ELSE UNCHANGED <<pc, result, psession>>

\* The part of checkForCompletion after the OCR, for the callback of tick
\* `tick` given `ocrText`; `attempts` is the shared counter as it is now.
Classify(tick, ocrText) ==
    LET done == isPromptVisible(ocrText) /\ CompletionGuard(attempts)
        late == attempts > maxAttempts
    IN
    /\ promptReappeared' = (promptReappeared \/ done)
    /\ interval' = (interval /\ ~done /\ ~late)
    /\ IF done \/ late
       THEN Resolved(promptReappeared \/ done, tick)
       ELSE UNCHANGED <<pc, result, psession>>

\* A tick of the interval, up to the await (or the early return): the
\* counter, the screenshot, the OCR request.
PollTick ==
    /\ interval
    /\ attempts < MaxPollTicks
    /\ Cardinality(pending) < MaxPending
    /\ attempts' = attempts + 1
    /\ \E shot \in Screenshots :
        /\ shots' = Append(shots, shot)
        /\ pending' = IF shot.path
                      THEN pending \cup {[tick |-> attempts + 1, text |-> shot.text]}
                      ELSE pending
    /\ UNCHANGED <<psession, pc, timeoutSeconds, interval, promptReappeared, result>>
    /\ UNCHANGED <<ivars, cvars, wvars, svars>>

\* The OCR of a tick answers: the rest of its callback runs.
OcrReturn ==
    /\ \E cb \in pending :
        /\ pending' = pending \ {cb}
        /\ Classify(cb.tick, cb.text)
    /\ UNCHANGED <<timeoutSeconds, attempts, shots>>
    /\ UNCHANGED <<ivars, cvars, wvars, svars>>

\* ------------------------------------------------------------- part_003

\* part_003 spawns `claude code` as a child process for each session and
\* closes a session by signalling that process.

CliIds == 1..(MaxCliSessions + 1)

CliTask(op, id) == [op |-> op, id |-> id]

\* The calls of close suspended on one session.
CliClosing(id) == CopiesIn(CliTask("close", id), cliTasks)

\* proc.kill(sig): the signal is sent, and `killed` set, when the child has
\* not exited; for a child that has exited kill returns false.
Kill(id, sig) ==
    IF cliProc[id].state = "running"
    THEN [cliProc EXCEPT ![id] = [@ EXCEPT !.killed = TRUE, !.signals = @ \cup {sig}]]
    ELSE cliProc

\* launch throws: the path does not exist, or `which claude` fails.  The
\* id is used up.
CliLaunchFails ==
    /\ exitCall.pc = "running"
    /\ cliCounter < MaxCliSessions
    /\ cliCounter' = cliCounter + 1
    /\ UNCHANGED <<cliSessions, cliProc, cliTasks, exitCall>>
    /\ UNCHANGED <<ivars, pvars, wvars, svars>>

\* launch up to its await: the id, spawn('claude', ['code']).
CliLaunchBegin ==
    /\ exitCall.pc = "running"
    /\ cliCounter < MaxCliSessions
    /\ cliCounter' = cliCounter + 1
    /\ cliProc' = cliProc @@
           ((cliCounter + 1) :> [state |-> "running", killed |-> FALSE, signals |-> {}])
    /\ cliTasks' = cliTasks (+) BagOf(CliTask("launch", cliCounter + 1), 1)
    /\ UNCHANGED <<cliSessions, exitCall>>
    /\ UNCHANGED <<ivars, pvars, wvars, svars>>

\* After the 500 ms: the trust answer is written, sessions.set.
CliLaunchEnd ==
    /\ exitCall.pc = "running"
    /\ \E t \in BagToSet(cliTasks) :
        /\ t.op = "launch"
        /\ cliSessions' = cliSessions \cup {t.id}
        /\ cliTasks' = cliTasks (-) BagOf(t, 1)
    /\ UNCHANGED <<cliCounter, cliProc, exitCall>>
    /\ UNCHANGED <<ivars, pvars, wvars, svars>>

\* The child exits, signalled or not.  While the controlling process
\* runs, 'exit' resolves every close waiting for it, which goes on to
\* sessions.delete in the same turn.
CliProcExit ==
    /\ \E id \in DOMAIN cliProc :
        /\ cliProc[id].state = "running"
        /\ cliProc' = [cliProc EXCEPT ![id] = [@ EXCEPT !.state = "exited"]]
        /\ IF exitCall.pc = "running" /\ CliClosing(id) > 0
           THEN /\ cliTasks' = cliTasks (-) BagOf(CliTask("close", id), CliClosing(id))
                /\ cliSessions' = cliSessions \ {id}
           ELSE UNCHANGED <<cliTasks, cliSessions>>
    /\ UNCHANGED <<cliCounter, exitCall>>
    /\ UNCHANGED <<ivars, pvars, wvars, svars>>

\* close up to its await.  For an unknown id it returns; for a process
\* already signalled (proc.killed) it goes straight to sessions.delete;
\* else SIGTERM, and the wait for 'exit' or 5 s.
CliClose ==
    /\ exitCall.pc = "running"
    /\ \E id \in CliIds :
        IF id \notin cliSessions
        THEN UNCHANGED <<cliSessions, cliProc, cliTasks>>
        ELSE IF cliProc[id].killed
        THEN /\ cliSessions' = cliSessions \ {id}
             /\ UNCHANGED <<cliProc, cliTasks>>
        ELSE /\ CliClosing(id) < MaxCliCloses
             /\ cliProc' = Kill(id, "SIGTERM")
             /\ cliTasks' = cliTasks (+) BagOf(CliTask("close", id), 1)
             /\ UNCHANGED cliSessions
    /\ UNCHANGED <<cliCounter, exitCall>>
    /\ UNCHANGED <<ivars, pvars, wvars, svars>>

\* The 5 s of a close passed: SIGKILL, sessions.delete.
CliCloseTimeout ==
    /\ exitCall.pc = "running"
    /\ \E t \in BagToSet(cliTasks) :
        /\ t.op = "close"
        /\ cliProc' = Kill(t.id, "SIGKILL")
        /\ cliTasks' = cliTasks (-) BagOf(t, 1)
        /\ cliSessions' = cliSessions \ {t.id}
    /\ UNCHANGED <<cliCounter, exitCall>>
    /\ UNCHANGED <<ivars, pvars, wvars, svars>>

\* The first id of Array.from(sessions.keys()): the Map keeps the keys in
\* the order of registration, which is the order of the ids.
First(ids) == CHOOSE id \in ids : \A other \in ids : id <= other

\* The id at which closeAll, called by the 'exit' listener, comes to the
\* await it never returns from: the first session whose process is not
\* `killed`.  Up to there close returns without waiting, but closeAll has
\* an await of its own after each close: it gets past the first id only
\* if promise continuations are still run (drained), which depends on
\* how the process came to exit.
StopsAt(drained) ==
    LET live == {id \in cliSessions : ~cliProc[id].killed} IN
    IF cliSessions = {} THEN Null
    ELSE IF ~drained
    THEN (IF cliProc[First(cliSessions)].killed THEN Null ELSE First(cliSessions))
    ELSE (IF live = {} THEN Null ELSE First(live))

\* The sessions closeAll has deleted by then.
DeletedAtExit(drained) ==
    LET k == StopsAt(drained) IN
    IF cliSessions = {} THEN {}
    ELSE IF ~drained
    THEN (IF k = Null THEN {First(cliSessions)} ELSE {})
    ELSE {id \in cliSessions : cliProc[id].killed /\ (k = Null \/ id < k)}

\* process.on('exit', () => { closeAll().catch(console.error) }): the
\* listener runs closeAll up to its first await that waits for an event;
\* then the process is gone, and nothing that was suspended goes on.
ProcessExit ==
    /\ exitCall.pc = "running"
    /\ \E drained \in BOOLEAN :
        LET k == StopsAt(drained) IN
        /\ cliProc' = IF k = Null THEN cliProc ELSE Kill(k, "SIGTERM")
        /\ cliSessions' = cliSessions \ DeletedAtExit(drained)
    /\ exitCall' = [pc |-> "exited", ids |-> cliSessions]
    /\ UNCHANGED <<cliCounter, cliTasks>>
    /\ UNCHANGED <<ivars, pvars, wvars, svars>>

\* ------------------------------------- launch of part_001 and test-v2.js

\* part_001: if (attempts > 20)
ReadyFallback == 20

\* part_001: authAttempts > 120
AuthFallback == 120

\* The two modules whose launch polls for the startup of claude.
Variants == {"vision", "pty"}

\* What ocrScreenshot returned to a callback of checkReady, as far as the
\* callback tells texts apart: which of the strings it looks for the text
\* includes ("login" is any of 'https://', 'login', 'authenticate'; "Trust"
\* any of 'Security', 'Trust'; "Claude" is 'Claude' or a length above 100).
StartTexts == SUBSET {"login", "Trust", "Claude"}

\* The same for a callback of checkAuth, which looks for the prompt glyph.
AuthTexts == SUBSET {"U+276F"}

\* takeScreenshot() and the OCR of what it took; it returns null on failure.
StartShots == {[path |-> FALSE, text |-> {}]} \cup [path : {TRUE}, text : StartTexts]
AuthShots == {[path |-> FALSE, text |-> {}]} \cup [path : {TRUE}, text : AuthTexts]

\* ocrText.includes('https://') || ... 'login' ... || ... 'authenticate'
NeedsAuth(text) == "login" \in text

\* ocrText.includes('Security') || ... || ocrText.length > 100 || attempts > 20
Detected(text) == "Trust" \in text \/ "Claude" \in text \/ startAttempts > ReadyFallback

\* if (ocrText.includes('Trust') || ocrText.includes('Security'))
Approves(text) == "Trust" \in text

\* A callback of the launch suspended at an await, or a timer it set.
Callback(of, id, tick, text) == [of |-> of, id |-> id, tick |-> tick, text |-> text]

\* if (!fs.existsSync(normalizedPath)) throw ...
StartPathMissing ==
    /\ launchCall = NotLaunched
    /\ \E v \in Variants : launchCall' = [variant |-> v, pc |-> "threw"]
    /\ UNCHANGED <<started, checkReady, checkAuth, startupTimeout, startAttempts, callbacks>>
    /\ UNCHANGED <<ivars, pvars, cvars, wvars>>

\* Settle gone wrong: every call of resolve puts the session in the Map.
SettleEveryTime(lines) ==
    /\ started' = [sessionReady |-> TRUE, registered |-> started.registered + 1,
                   stdin |-> started.stdin + lines]
    /\ launchCall' = [launchCall EXCEPT !.pc = "returned"]

\* session.sessionReady = true; resolve(), after `lines` were written to
\* the process.  The first resolve wakes launch up, which does sessions.set
\* and returns; a later one does nothing.
Settle(lines) ==
    /\ started' = [sessionReady |-> TRUE,
                   registered |-> IF launchCall.pc = "waiting"
                                  THEN started.registered + 1
                                  ELSE started.registered,
                   stdin |-> started.stdin + lines]
    /\ launchCall' = IF launchCall.pc = "waiting"
                     THEN [launchCall EXCEPT !.pc = "returned"]
                     ELSE launchCall

\* part_001 launch, up to `await new Promise(...)`: the interval and the
\* 60 s timer are set.
VisionLaunch ==
    /\ launchCall = NotLaunched
    /\ launchCall' = [variant |-> "vision", pc |-> "waiting"]
    /\ started' = NoSession
    /\ checkReady' = TRUE
    /\ startupTimeout' = TRUE
    /\ UNCHANGED <<checkAuth, startAttempts, callbacks>>
    /\ UNCHANGED <<ivars, pvars, cvars, wvars>>

\* A tick of checkReady, up to `await ocrScreenshot(...)`.  setInterval does
\* not wait for the callback of the tick before.
ReadyTick ==
    /\ launchCall.variant = "vision"
    /\ checkReady
    /\ startAttempts < MaxStartTicks
    /\ Cardinality(callbacks) < MaxOverlap
    /\ startAttempts' = startAttempts + 1
    /\ \E shot \in StartShots :
        IF ~shot.path
        THEN /\ IF startAttempts + 1 > ReadyFallback
                THEN checkReady' = FALSE /\ Settle(0)
                ELSE UNCHANGED <<checkReady, started, launchCall>>
             /\ UNCHANGED callbacks
        ELSE /\ callbacks' = callbacks \cup {Callback("ready", 0, startAttempts + 1, shot.text)}
             /\ UNCHANGED <<checkReady, started, launchCall>>
    /\ UNCHANGED <<checkAuth, startupTimeout>>
    /\ UNCHANGED <<ivars, pvars, cvars, wvars>>

\* The OCR of a tick of checkReady has answered: the authentication screen
\* (checkReady is cleared and a checkAuth interval is set), the UI (with
\* the trust prompt: '1', and a wait of 300 ms), or neither.
ReadyOcr ==
    /\ \E cb \in callbacks :
        /\ cb.of = "ready"
        /\ IF NeedsAuth(cb.text)
           THEN /\ checkReady' = FALSE
                /\ checkAuth' = Append(checkAuth, [live |-> TRUE, authAttempts |-> 0])
                /\ callbacks' = callbacks \ {cb}
                /\ UNCHANGED <<started, launchCall>>
           ELSE IF Detected(cb.text) /\ Approves(cb.text)
           THEN /\ callbacks' = (callbacks \ {cb}) \cup {[cb EXCEPT !.of = "approving"]}
                /\ started' = [started EXCEPT !.stdin = @ + 1]
                /\ UNCHANGED <<checkReady, checkAuth, launchCall>>
           ELSE IF Detected(cb.text)
           THEN /\ callbacks' = callbacks \ {cb}
                /\ checkReady' = FALSE
                /\ Settle(0)
                /\ UNCHANGED checkAuth
           ELSE /\ callbacks' = callbacks \ {cb}
                /\ UNCHANGED <<checkReady, checkAuth, started, launchCall>>
    /\ UNCHANGED <<startupTimeout, startAttempts>>
    /\ UNCHANGED <<ivars, pvars, cvars, wvars>>

\* After the 300 ms: Enter, clearInterval(checkReady), ready, resolve.
ReadyApproved ==
    /\ \E cb \in callbacks :
        /\ cb.of = "approving"
        /\ callbacks' = callbacks \ {cb}
    /\ checkReady' = FALSE
    /\ Settle(1)
    /\ UNCHANGED <<checkAuth, startupTimeout, startAttempts>>
    /\ UNCHANGED <<ivars, pvars, cvars, wvars>>

\* A tick of a checkAuth interval, up to `await ocrScreenshot(...)`.
AuthTick ==
    /\ Cardinality(callbacks) < MaxOverlap
    /\ \E id \in DOMAIN checkAuth, shot \in AuthShots :
        /\ checkAuth[id].live
        /\ checkAuth[id].authAttempts < MaxAuthTicks
        /\ checkAuth' = [checkAuth EXCEPT ![id].authAttempts = @ + 1]
        /\ callbacks' = IF shot.path
                        THEN callbacks \cup {Callback("auth", id, checkAuth[id].authAttempts + 1,
                                                      shot.text)}
                        ELSE callbacks
    /\ UNCHANGED <<launchCall, started, checkReady, startupTimeout, startAttempts>>
    /\ UNCHANGED <<ivars, pvars, cvars, wvars>>

\* The OCR of a tick of checkAuth has answered.
AuthOcr ==
    /\ \E cb \in callbacks :
        /\ cb.of = "auth"
        /\ callbacks' = callbacks \ {cb}
        /\ IF "U+276F" \in cb.text \/ checkAuth[cb.id].authAttempts > AuthFallback
           THEN /\ checkAuth' = [checkAuth EXCEPT ![cb.id].live = FALSE]
                /\ Settle(0)
           ELSE UNCHANGED <<checkAuth, started, launchCall>>
    /\ UNCHANGED <<checkReady, startupTimeout, startAttempts>>
    /\ UNCHANGED <<ivars, pvars, cvars, wvars>>

\* setTimeout(..., 60000) of part_001: clearInterval(checkReady), ready,
\* resolve.  Nothing clears this timer, and it clears no checkAuth.
VisionTimeout ==
    /\ launchCall.variant = "vision"
    /\ startupTimeout
    /\ startupTimeout' = FALSE
    /\ checkReady' = FALSE
    /\ Settle(0)
    /\ UNCHANGED <<checkAuth, startAttempts, callbacks>>
    /\ UNCHANGED <<ivars, pvars, cvars, wvars>>

\* test-v2.js launch, up to `await new Promise(...)`: the interval and the
\* 10 s timer are set.
PtyLaunch ==
    /\ launchCall = NotLaunched
    /\ launchCall' = [variant |-> "pty", pc |-> "waiting"]
    /\ started' = NoSession
    /\ checkReady' = TRUE
    /\ startupTimeout' = TRUE
    /\ UNCHANGED <<checkAuth, startAttempts, callbacks>>
    /\ UNCHANGED <<ivars, pvars, cvars, wvars>>

\* The tick of checkReady that finds 'Security' or 'Trust' in outputBuffer:
\* clearInterval, '1', and a timer of 300 ms.  (A tick that does not find it
\* changes nothing.)
PtyReadyTick ==
    /\ launchCall.variant = "pty"
    /\ checkReady
    /\ checkReady' = FALSE
    /\ callbacks' = callbacks \cup {Callback("enter", 0, 0, {"Trust"})}
    /\ started' = [started EXCEPT !.stdin = @ + 1]
    /\ UNCHANGED <<launchCall, checkAuth, startupTimeout, startAttempts>>
    /\ UNCHANGED <<ivars, pvars, cvars, wvars>>

\* The timer of 300 ms: Enter, ready, resolve.
PtyEnter ==
    /\ \E cb \in callbacks :
        /\ cb.of = "enter"
        /\ callbacks' = callbacks \ {cb}
    /\ Settle(1)
    /\ UNCHANGED <<checkReady, checkAuth, startupTimeout, startAttempts>>
    /\ UNCHANGED <<ivars, pvars, cvars, wvars>>

\* setTimeout(..., 10000) of test-v2.js: clearInterval(checkReady) and, if
\* the session is not ready, ready and resolve.
PtyTimeout ==
    /\ launchCall.variant = "pty"
    /\ startupTimeout
    /\ startupTimeout' = FALSE
    /\ checkReady' = FALSE
    /\ IF ~started.sessionReady THEN Settle(0) ELSE UNCHANGED <<started, launchCall>>
    /\ UNCHANGED <<checkAuth, startAttempts, callbacks>>
    /\ UNCHANGED <<ivars, pvars, cvars, wvars>>

\* ------------------------------------------------------------- watcher.js

\* The standalone watcher: one process, one setInterval, the front window
\* of Terminal.app.

\* const EVENT_COOLDOWN = 30000
EventCooldown == 30000

\* const PROMPT_COOLDOWN = 5000
PromptCooldown == 5000

\* PROMPT_PATTERNS, ERROR_PATTERNS, COMPLETION_PATTERNS
Categories == {"prompt", "error", "completion"}

\* What readTerminal returned, as far as the callback tells texts apart:
\* which text it is (v; 0 is '') and the pattern lists of which an entry
\* matches its last 15 lines.
TerminalTexts == {NoText} \cup [v : 1..2, matches : SUBSET Categories]

\* --interval
IntervalArgs == {3000, 15000}

\* watcher.js started with its arguments read; index.js as loaded.
DetectInit ==
    /\ sessionCounter = 0
    /\ sessions = {}
    /\ session = <<>>
    /\ tasks = EmptyBag
    /\ procs = <<>>
    /\ timers = <<>>
    /\ ntimers = 0
    /\ pendingEnter = EmptyBag
    /\ front = 0
    /\ keys = [w \in 0..MaxSessions |-> 0]
    /\ ret = Returns("none", 0, "none")
    /\ targets = <<>>
    /\ closeAllCall = NoCloseAll
    /\ faults = 0
    /\ psession = [registered |-> FALSE, sessionReady |-> TRUE,
                   commandCount |-> 0, sessionLog |-> <<>>]
    /\ pc = "idle"
    /\ timeoutSeconds = 0
    /\ attempts = 0
    /\ interval = FALSE
    /\ pending = {}
    /\ shots = <<>>
    /\ promptReappeared = FALSE
    /\ result = NoResult
    /\ cliCounter = 0
    /\ cliSessions = {}
    /\ cliProc = <<>>
    /\ cliTasks = EmptyBag
    /\ exitCall = NotExited
    /\ AUTO_APPROVE \in BOOLEAN
    /\ INTERVAL \in IntervalArgs
    /\ lastContent = NoText
    /\ lastEventTime = 0
    /\ lastPromptTime = 0
    /\ now = StartTime
    /\ terminalContent = NoText
    /\ effects = <<>>
    /\ launchCall = NotLaunched
    /\ started = NoSession
    /\ checkReady = FALSE
    /\ checkAuth = <<>>
    /\ startupTimeout = FALSE
    /\ startAttempts = 0
    /\ callbacks = {}

\* Skipped gone wrong: only the empty text is skipped.
SkippedWhenEmpty(content) == content.v = 0

\* if (!content || content === lastContent) return
Skipped(content) == content.v = 0 \/ content = lastContent

\* PromptShown gone wrong: the error patterns are looked at first.
PromptShownAfterErrors(recent) == "prompt" \in recent /\ "error" \notin recent

\* for (... of PROMPT_PATTERNS) if (pattern.test(recent)) ...
PromptShown(recent) == "prompt" \in recent

\* approvePrompt() or sendEvent(...)
Effect(at, kind, category) == [at |-> at, kind |-> kind, category |-> category]

\* now - lastEventTime > EVENT_COOLDOWN
EventDue(at) == at - lastEventTime > EventCooldown

\* One run of the interval callback, INTERVAL after the last.
DetectTick ==
    /\ (now - StartTime) \div INTERVAL < MaxDetectTicks
    /\ \E content \in TerminalTexts :
        LET at == now + INTERVAL
            recent == content.matches
        IN
        /\ now' = at
        /\ terminalContent' = content
        /\ IF Skipped(content)
           THEN UNCHANGED <<lastContent, lastEventTime, lastPromptTime, effects>>
           ELSE /\ lastContent' = content
                /\ IF PromptShown(recent)
                   THEN IF AUTO_APPROVE /\ at - lastPromptTime > PromptCooldown
                        THEN /\ effects' = Append(effects, Effect(at, "approve", "prompt"))
                             /\ lastPromptTime' = at
                             /\ UNCHANGED lastEventTime
                        ELSE IF ~AUTO_APPROVE /\ EventDue(at)
                        THEN /\ effects' = Append(effects, Effect(at, "event", "prompt"))
                             /\ lastEventTime' = at
                             /\ UNCHANGED lastPromptTime
                        ELSE UNCHANGED <<lastEventTime, lastPromptTime, effects>>
                   ELSE IF "error" \in recent /\ EventDue(at)
                   THEN /\ effects' = Append(effects, Effect(at, "event", "error"))
                        /\ lastEventTime' = at
                        /\ UNCHANGED lastPromptTime
                   ELSE IF "completion" \in recent /\ EventDue(at)
                   THEN /\ effects' = Append(effects, Effect(at, "event", "completion"))
                        /\ lastEventTime' = at
                        /\ UNCHANGED lastPromptTime
                   ELSE UNCHANGED <<lastEventTime, lastPromptTime, effects>>
    /\ UNCHANGED <<AUTO_APPROVE, INTERVAL>>
    /\ UNCHANGED <<ivars, pvars, cvars, svars>>

\* ------------------------------------------------------------- specifications


\* The registry and the command dispatcher of index.js.
Next ==
    \/ LaunchPathMissing(MaxSessions)
    \/ LaunchBegin(MaxSessions)
    \/ LaunchEnd
    \/ TargetExit
    \/ SendInvalid
    \/ SendBegin
    \/ SendEnter
    \/ SendEnd
    \/ CloseUnknown
    \/ CloseBegin
    \/ CloseEnd

\* The recorder and the prompt watcher of index.js, attached and detached.
AttachNext ==
    \/ LaunchPathMissing(MaxAttachSessions)
    \/ LaunchBegin(MaxAttachSessions)
    \/ LaunchEnd
    \/ StartRecordingInvalid
    \/ StartRecording
    \/ StopRecordingInvalid
    \/ StopRecordingBegin
    \/ StopRecordingTimeout
    \/ ProcClose
    \/ WatchInvalid
    \/ WatchForPrompts
    \/ StopWatching
    \/ CloseUnknown
    \/ CloseBegin
    \/ CloseStopTimeout
    \/ CloseEnd

\* The prompt watcher of index.js at work.
WatchNext ==
    \/ LaunchPathMissing(MaxAttachSessions)
    \/ LaunchBegin(MaxAttachSessions)
    \/ LaunchEnd
    \/ WatchInvalid
    \/ WatchForPrompts
    \/ StopWatching
    \/ WatcherTick
    \/ WatcherEnter

\* closeAll of index.js, with launch and close.
AllNext ==
    \/ LaunchPathMissing(MaxSessions)
    \/ LaunchBegin(MaxSessions)
    \/ LaunchEnd
    \/ CloseUnknown
    \/ CloseBegin
    \/ CloseEnd
    \/ CloseFocusThrows
    \/ CloseExitThrows
    \/ CloseAll
    \/ CloseAllNext
    \/ CloseAllThrows

\* part_003: launch, close, and the exit of the controlling process.
ExitNext ==
    \/ CliLaunchFails
    \/ CliLaunchBegin
    \/ CliLaunchEnd
    \/ CliProcExit
    \/ CliClose
    \/ CliCloseTimeout
    \/ ProcessExit

\* The standalone watcher of watcher.js.
DetectNext ==
    \/ DetectTick

\* The polling send of part_001.
PollNext ==
    \/ PollSendInvalid
    \/ PollSend
    \/ PollTick
    \/ OcrReturn

\* The launch of part_001 or of test-v2.js, once.
StartNext ==
    \/ StartPathMissing
    \/ VisionLaunch
    \/ ReadyTick
    \/ ReadyOcr
    \/ ReadyApproved
    \/ AuthTick
    \/ AuthOcr
    \/ VisionTimeout
    \/ PtyLaunch
    \/ PtyReadyTick
    \/ PtyEnter
    \/ PtyTimeout

Spec == Init /\ [][Next]_vars
SpecStart == Init /\ [][StartNext]_vars
SpecAttach == Init /\ [][AttachNext]_vars
SpecWatch == Init /\ [][WatchNext]_vars
SpecAll == Init /\ [][AllNext]_vars
SpecExit == Init /\ [][ExitNext]_vars
SpecDetect == DetectInit /\ [][DetectNext]_vars
SpecPoll == PollInit /\ [][PollNext]_vars
\* ------------------------------------------------------------- properties

\* The "command" entries of a log.
Commands(log) == Cardinality({i \in 1..Len(log) : log[i] = "command"})

\* C1: while a send on a session has been accepted and has not returned, a
\* second send on that session is rejected: no further send is taken up
\* (so none of its keystrokes are typed), the command counter does not
\* move and no command entry is appended.
C1_SecondSendRejected ==
    [][\A sid \in sessions :
        InFlight("send", sid) >= 1 =>
            /\ InFlight("send", sid)' <= InFlight("send", sid)
            /\ session'[sid].commandCount = session[sid].commandCount
            /\ Commands(session'[sid].sessionLog) = Commands(session[sid].sessionLog)]_vars

\* C2: commands_sent of getStatus goes up by exactly one when a send is
\* accepted (on a session with no command in flight), stays as it is when
\* a send is rejected (unknown id, or a command in flight), and never goes
\* down.
C2_CommandsSentCountsAccepted ==
    [][\A sid \in sessions \cap sessions' :
        LET before == getStatus(sid).commands_sent
            after == getStatus(sid).commands_sent'
        IN
        /\ after >= before
        /\ after <= before + 1
        /\ after = before + 1 =>
              InFlight("send", sid) = 0 /\ InFlight("send", sid)' = 1
        /\ InFlight("send", sid) >= 1 => after = before
        /\ (ret' # ret /\ ret'.op = "send" /\ ret'.out = "throw") => after = before]_vars

\* close(id) has completed: the session was registered (ready is set when
\* it is) and is registered no more.
Closed(id) == id \in DOMAIN session /\ session[id].ready /\ id \notin sessions

\* C4: once close(id) has completed getStatus(id) is null in every later
\* state, and ids are issued in strictly increasing order: a launch takes
\* an id above every id taken before, so none is returned twice.
C4_ClosedIdNeverReturns ==
    [][/\ \A id \in Ids : Closed(id) => ~getStatus(id).found'
       /\ \A id \in Ids :
            InFlight("launch", id)' > InFlight("launch", id) =>
                id > sessionCounter /\ id \notin DOMAIN session
       /\ (ret' # ret /\ ret'.op = "launch") => ret'.sid \notin sessions /\ ~Closed(ret'.sid)
       /\ sessionCounter' >= sessionCounter
       /\ \A id \in DOMAIN session : id <= sessionCounter]_vars

\* A session was closed and a later id is registered.
C4_Witness ==
    \E id \in Ids, later \in sessions :
        Closed(id) /\ later > id /\ ~getStatus(id).found /\ ret.op = "launch"

\* C5: close on an id that is not registered (closed before, or never
\* issued) returns without an error and changes nothing: no input to any
\* window, the registry and every session as they were.
C5_CloseIdempotent ==
    [][(ret' # ret /\ ret'.op = "close" /\ ret'.sid \notin sessions /\ tasks' = tasks) =>
            /\ ret'.out = "ok"
            /\ UNCHANGED <<sessionCounter, sessions, session, procs, timers, ntimers,
                           pendingEnter, front, keys>>]_vars

\* close returned for an id after its session was closed, or for an id that
\* launch never issued, while another session is registered.
C5_Witness ==
    /\ ret = Returns("close", MaxSessions + 1, "ok")
    /\ \E id \in sessions, gone \in Ids : Closed(gone) /\ keys[id] > 0

\* The live timers of the prompt watchers of a session.
WatchersOf(sid) == {id \in DOMAIN timers : timers[id].sid = sid}

\* C9: watchForPrompts on a session with an active watcher throws, and
\* the first watcher is as it was: its timer scheduled with the same
\* interval, patterns and state, the handle of the session unchanged, no
\* timer created.
C9_SecondWatcherFails ==
    [][/\ (ret' # ret /\ ret'.op = "watchForPrompts" /\ ret'.sid \in sessions
            /\ session[ret'.sid].watcher # Null) =>
                /\ ret'.out = "throw"
                /\ UNCHANGED <<timers, session, ntimers>>
       /\ \A id \in DOMAIN timers' \ DOMAIN timers :
            session[timers'[id].sid].watcher = Null]_vars

\* The second watchForPrompts threw and the first watcher is scheduled.
C9_Witness ==
    /\ ret.op = "watchForPrompts" /\ ret.out = "throw"
    /\ ret.sid \in sessions
    /\ session[ret.sid].watcher # Null
    /\ WatchersOf(ret.sid) = {session[ret.sid].watcher}

\* C10: in every state a registered session has at most one recorder (an
\* ffmpeg process capturing for it) and at most one prompt watcher (a
\* scheduled timer).
C10_OneRecorderOneWatcher ==
    \A sid \in sessions :
        /\ Cardinality(RecordersOf(sid)) <= 1
        /\ Cardinality(WatchersOf(sid)) <= 1

\* C8: two occurrences of the same prompt pattern seen by a watcher within
\* the cooldown get one auto-response: two responses of one watcher to the
\* same pattern are more than the cooldown apart.
C8_OneResponsePerCooldown ==
    \A id \in DOMAIN timers :
        \A a, b \in timers[id].responded :
            (a[2] = b[2] /\ a[1] < b[1]) =>
                (b[1] - a[1]) * timers[id].intervalMs > PromptCooldown

\* Every tick so far captured a snapshot and none shows the prompt.
NeverMatches ==
    \A i \in 1..Len(shots) : shots[i].path /\ ~isPromptVisible(shots[i].text)

\* C3: with timeoutSeconds = N and snapshots that never match, the polling
\* send returns the timeout status ('incomplete' in part_001) no earlier
\* than N seconds (2N ticks of 500 ms) and no later than one tick more.
C3_TimeoutWithinOneInterval ==
    (pc = "returned" /\ NeverMatches) =>
        /\ result.status = "incomplete"
        /\ result.attempts >= 2 * timeoutSeconds
        /\ result.attempts <= 2 * timeoutSeconds + 1

\* The first k ticks captured snapshots that match (TRUE) or not (FALSE) as
\* in `matches`.
Stream(matches) ==
    /\ Len(shots) >= Len(matches)
    /\ \A i \in 1..Len(matches) :
        shots[i].path /\ (isPromptVisible(shots[i].text) <=> matches[i])

\* The callback of tick n and all before it have run to their end and no
\* later tick has fired.
Ticked(n) == attempts = n /\ pending = {}

C11_SendRejectedChangesNothing ==
    [][/\ (ret' # ret /\ ret'.op = "send" /\ ret'.out = "throw") =>
            /\ ret'.sid \notin sessions
            /\ UNCHANGED <<sessionCounter, sessions, session, tasks, keys, front, targets>>
       /\ \A sid \in Ids :
            InFlight("send", sid)' > InFlight("send", sid) =>
                sid \in sessions /\ session[sid].ready]_vars

\* send threw for a session that launch is still starting, while another
\* session has a command counted.
C11_Witness ==
    /\ ret.op = "send" /\ ret.out = "throw"
    /\ ret.sid \in DOMAIN session /\ ~session[ret.sid].ready
    /\ InFlight("launch", ret.sid) = 1
    /\ \E sid \in sessions : session[sid].commandCount > 0

\* C12: launch on a path that does not exist throws without opening a
\* window for claude and without registering a session; the sessions that
\* exist are as they were.
C12_LaunchPathMissingChangesNothing ==
    [][(ret' # ret /\ ret'.op = "launch" /\ ret'.out = "throw") =>
            /\ ret'.sid \notin sessions' /\ ret'.sid \notin DOMAIN targets'
            /\ UNCHANGED <<sessions, session, tasks, targets, front, keys>>]_vars

\* launch threw while a session is registered.
C12_Witness ==
    /\ ret.op = "launch" /\ ret.out = "throw"
    /\ ret.sid \notin DOMAIN session /\ ret.sid \notin DOMAIN targets
    /\ \E sid \in sessions : sid < ret.sid /\ sid \in DOMAIN targets

\* C13: a session is registered (its id returned by launch) only when its
\* target was started.
C13_RegisteredTargetStarted ==
    \A sid \in sessions : sid \in DOMAIN targets

\* C14: close stops the watcher, then the recorder, then sends the exit
\* input, then waits for the target to exit or terminates it, and only then
\* removes the session: the exit input goes out with no watcher and no
\* recorder attached, and a session is removed with its target gone.
C14_CloseOrder ==
    [][\A sid \in sessions :
        /\ InFlight("close", sid)' > InFlight("close", sid) =>
                session'[sid].watcher = Null
        /\ CopiesIn(Escaped(sid), tasks') > CopiesIn(Escaped(sid), tasks) =>
                session'[sid].watcher = Null /\ session'[sid].recording = Null
        /\ sid \notin sessions' =>
                /\ session[sid].watcher = Null /\ session[sid].recording = Null
                /\ sid \in DOMAIN targets => targets[sid] = "exited"]_vars

\* C15: when a step of close fails the later steps are still run and the
\* session is removed all the same: whenever close returns or throws for
\* a registered session, the session is registered no more, with no
\* watcher and no recorder.
C15_CloseBestEffort ==
    [][(ret' # ret /\ ret'.op = "close" /\ ret'.sid \in sessions) =>
            /\ ret'.sid \notin sessions'
            /\ session'[ret'.sid].watcher = Null
            /\ session'[ret'.sid].recording = Null]_vars

\* C16: when closeAll has ended, whether a close failed or not, no
\* session that was registered at its call is registered.
C16_CloseAllClosesAll ==
    closeAllCall.pc \in {"done", "threw"} => closeAllCall.ids \cap sessions = {}

\* C17: a stopRecording that waits always has its 5 s timer to go on by,
\* and when it returns, by the exit of the process or by the timer, the
\* session holds no recording handle and the process it waited for has
\* exited or has been sent SIGTERM.
C17_StopRecordingReleases ==
    /\ [](\A sid \in Ids : InFlight("stopRecording", sid) > 0 => ENABLED StopRecordingTimeout)
    /\ [][\A t \in BagToSet(tasks) :
            (t.op = "stopRecording" /\ CopiesIn(t, tasks') < CopiesIn(t, tasks)) =>
                /\ session'[t.sid].recording = Null
                /\ procs'[t.proc].state \in {"closed", "killed"}
                /\ ret' = Returns("stopRecording", t.sid, "ok")]_vars

\* A stopRecording has returned by its timer: the process did not exit on
\* 'q', was sent SIGTERM, and the session holds no handle.
C17_Witness ==
    /\ ret.op = "stopRecording" /\ ret.out = "ok"
    /\ ret.sid \in sessions /\ session[ret.sid].recording = Null
    /\ \E p \in DOMAIN procs : procs[p].sid = ret.sid /\ procs[p].state = "killed"
    /\ InFlight("stopRecording", ret.sid) = 0

\* C18: a startRecording that cannot read the window bounds throws with
\* no process spawned and the session left as it was, and every process
\* spawned was given the bounds of the window.
C18_NoBoundsNoRecorder ==
    /\ [](\A p \in DOMAIN procs : procs[p].bounds)
    /\ [][(ret' # ret /\ ret'.op = "startRecording" /\ ret'.out = "throw") =>
            UNCHANGED <<procs, session, tasks>>]_vars

\* startRecording has thrown for a registered session that is not
\* recording and for which no process was ever spawned: the bounds were
\* not to be had.
C18_Witness ==
    /\ ret.op = "startRecording" /\ ret.out = "throw"
    /\ ret.sid \in sessions /\ session[ret.sid].recording = Null
    /\ \A p \in DOMAIN procs : procs[p].sid # ret.sid

\* C19: when stopWatching returns for a registered session, the session
\* has no watcher and no timer of it is scheduled; the callback runs only
\* for the timer that is the watcher of its session, so never after the
\* stop; and on a session with no watcher stopWatching changes nothing.
C19_StopWatchingCancels ==
    /\ [](\A id \in DOMAIN timers :
            timers[id].sid \in sessions /\ session[timers[id].sid].watcher = id)
    /\ [][/\ (ret' # ret /\ ret'.op = "stopWatching" /\ ret'.out = "ok") =>
                /\ session'[ret'.sid].watcher = Null
                /\ \A id \in DOMAIN timers' : timers'[id].sid # ret'.sid
                /\ session[ret'.sid].watcher = Null =>
                        UNCHANGED <<sessionCounter, sessions, session, tasks, procs, timers,
                                    ntimers, pendingEnter, front, keys, targets>>
           /\ \A id \in DOMAIN timers \cap DOMAIN timers' :
                timers'[id].ticks > timers[id].ticks =>
                    session[timers[id].sid].watcher = id]_vars

\* stopWatching has returned for a session whose watcher had been started:
\* no timer is left.
C19_Witness ==
    /\ ret.op = "stopWatching" /\ ret.out = "ok"
    /\ ret.sid \in sessions /\ session[ret.sid].watcher = Null
    /\ ntimers > 0 /\ timers = <<>>

\* C20: an Enter that a tick scheduled is injected only while the timer
\* of that tick is still the watcher of its session: none after
\* stopWatching has returned.
C20_NoInputAfterStop ==
    [][\A id \in BagToSet(pendingEnter) :
        CopiesIn(id, pendingEnter') < CopiesIn(id, pendingEnter) =>
            id \in DOMAIN timers /\ session[timers[id].sid].watcher = id]_vars

\* The calls in the middle of their input sequence: a send between its
\* text and its Enter, a close between its Escape and its '/exit'.
MidInput ==
    {t \in BagToSet(tasks) : (t.op = "send" /\ t.at = "typed")
                                \/ (t.op = "close" /\ t.at = "escaped")}

\* C21: while a call is in the middle of its input sequence, the only
\* input delivered and the only change of the front window is by that
\* call going on with its sequence.
C21_InputSerialized ==
    [][(MidInput # {} /\ (keys' # keys \/ front' # front)) =>
            \E t \in MidInput : CopiesIn(t, tasks') < CopiesIn(t, tasks)]_vars

\* C22: a polling send all of whose captures failed has returned, with
\* the timeout status, once more ticks than maxAttempts have run.
C22_ReturnsWhenCapturesFail ==
    (/\ pc \in {"polling", "returned"}
     /\ \A i \in 1..Len(shots) : ~shots[i].path
     /\ attempts > maxAttempts /\ pending = {}) =>
        pc = "returned" /\ result.status = "incomplete"

\* C23: the text of send(S, command), S being a session whose window was
\* opened, is typed into the window of S and into no other.
C23_SendTypesIntoOwnWindow ==
    [][\A sid \in sessions \cap DOMAIN targets :
        InFlight("send", sid)' > InFlight("send", sid) =>
            /\ keys'[sid] > keys[sid]
            /\ \A w \in DOMAIN keys \ {sid} : keys'[w] = keys[w]]_vars

\* C24: once the controlling process has exited, the process of every
\* session that was registered at the exit has been signalled (or had
\* exited by itself).
C24_ExitSignalsEverySession ==
    exitCall.pc = "exited" =>
        \A id \in exitCall.ids :
            cliProc[id].state = "exited" \/ cliProc[id].signals # {}

\* Between two command entries of a log there is a response entry.
Answered(log) ==
    \A i, j \in 1..Len(log) :
        (i < j /\ log[i] = "command" /\ log[j] = "command") =>
            \E k \in (i + 1)..(j - 1) : log[k] = "response"

\* C25: the log of a session only grows at its end, and a command entry
\* is followed by its response entry before the next command entry.
C25_LogAppendOnlyInOrder ==
    /\ [](\A sid \in DOMAIN session : Answered(session[sid].sessionLog))
    /\ [][\A sid \in DOMAIN session :
            /\ sid \in DOMAIN session'
            /\ Len(session'[sid].sessionLog) >= Len(session[sid].sessionLog)
            /\ SubSeq(session'[sid].sessionLog, 1, Len(session[sid].sessionLog))
                    = session[sid].sessionLog]_vars

\* The list looked at first of those with a matching entry.
Top(recent) ==
    IF "prompt" \in recent THEN "prompt"
    ELSE IF "error" \in recent THEN "error" ELSE "completion"

\* C26: a tick of the standalone watcher does at most one thing, and
\* what it does is for the first of prompt, error, completion that the
\* snapshot shows: nothing is done for a later one, also when the first
\* is held back by its cooldown.
C26_OneCategoryPerPass ==
    [][effects' # effects =>
            /\ Len(effects') = Len(effects) + 1
            /\ SubSeq(effects', 1, Len(effects)) = effects
            /\ terminalContent'.matches # {}
            /\ effects'[Len(effects')].category = Top(terminalContent'.matches)]_vars

\* A snapshot that shows a prompt and an error was handled as a prompt.
C26_Witness ==
    /\ effects # <<>>
    /\ effects[Len(effects)].at = now
    /\ effects[Len(effects)].category = "prompt"
    /\ {"prompt", "error"} \subseteq terminalContent.matches

\* When something was last done for a category (0: never).
LastOf(category) ==
    LET ats == {effects[i].at : i \in {j \in 1..Len(effects) : effects[j].category = category}}
    IN IF ats = {} THEN 0 ELSE CHOOSE a \in ats : \A b \in ats : a >= b

\* The cooldown of a category.
Cooldown(category) ==
    IF category = "prompt" /\ AUTO_APPROVE THEN PromptCooldown ELSE EventCooldown

\* C27: a tick with a new snapshot whose first category has had nothing
\* done for it within its own cooldown does something, whatever was done
\* for other categories meanwhile.
C27_CooldownPerCategory ==
    [][(/\ now' # now
        /\ ~Skipped(terminalContent')
        /\ terminalContent'.matches # {}
        /\ now' - LastOf(Top(terminalContent'.matches))
                > Cooldown(Top(terminalContent'.matches))) =>
            effects' # effects]_vars

\* C30: a tick whose snapshot is empty or is the one remembered does
\* nothing: no approval, no event, the cooldown times and the remembered
\* snapshot as they were; the next tick is taken as any other.
C30_SkippedTickChangesNothing ==
    [][(now' # now /\ (terminalContent'.v = 0 \/ terminalContent' = lastContent)) =>
            UNCHANGED <<lastContent, lastEventTime, lastPromptTime, effects,
                        AUTO_APPROVE, INTERVAL>>]_vars

\* The snapshot that had got an effect came again after the cooldown,
\* and nothing was done for it.
C30_Witness ==
    /\ terminalContent = lastContent /\ terminalContent.v # 0
    /\ terminalContent.matches # {}
    /\ Len(effects) = 1
    /\ now - effects[1].at > EventCooldown

\* The responses of the tick of timer id that this step is.
Responses(id) == timers'[id].responded \ timers[id].responded

\* C28: a tick of a watcher of index.js delivers at most one response,
\* that of the first entry of allPatterns matching the snapshot: a built-in
\* entry if one matches, else one of the caller's.
C28_FirstMatchOnly ==
    [][\A id \in DOMAIN timers \cap DOMAIN timers' :
        timers'[id].ticks > timers[id].ticks =>
            /\ Cardinality(Responses(id)) <= 1
            /\ keys'[front] <= keys[front] + 1
            /\ \A r \in Responses(id) :
                /\ r[2] \in timers'[id].lastSeenContent.shows
                /\ r[2] <= timers[id].npatterns
                /\ \A i \in timers'[id].lastSeenContent.shows : r[2] <= i]_vars

\* A watcher with a pattern of the caller answered a snapshot that a
\* built-in entry and the caller's entry match, as the built-in entry says.
C28_Witness ==
    \E id \in DOMAIN timers :
        /\ timers[id].npatterns >= CallerPattern
        /\ timers[id].lastSeenContent.shows = {PressToContinue, CallerPattern}
        /\ <<timers[id].ticks, PressToContinue>> \in timers[id].responded

\* C29: a tick that delivers an auto-response appends an entry to the
\* log of its session.
C29_AutoResponseLogged ==
    [][\A id \in DOMAIN timers \cap DOMAIN timers' :
        Responses(id) # {} =>
            Len(session'[timers[id].sid].sessionLog)
                > Len(session[timers[id].sid].sessionLog)]_vars

\* C31: when close removes a session from the registry, no timer of a
\* watcher of that session is scheduled and no ffmpeg process spawned for
\* it is still capturing.
C31_NothingLeftRunning ==
    [][\A sid \in sessions :
        sid \notin sessions' =>
            /\ \A id \in DOMAIN timers' : timers'[id].sid # sid
            /\ \A p \in DOMAIN procs' : procs'[p].sid = sid => procs'[p].state # "recording"]_vars

\* C32: a close that types '/exit' and Enter does so for a session still
\* registered, which it then removes: of the closes of one session in
\* progress at the same time, one delivers the exit sequence.
C32_ExitSequenceOnce ==
    [][\A t \in BagToSet(tasks) :
        (/\ IsClose(t) /\ t.at = "escaped"
         /\ CopiesIn(t, tasks') < CopiesIn(t, tasks)
         /\ keys' # keys) => t.sid \in sessions]_vars

\* C33: once close has removed a session, claude runs no more in the
\* window opened for it: it has exited on '/exit' or was terminated.
C33_ClosedTargetGone ==
    \A sid \in DOMAIN targets : Closed(sid) => targets[sid] = "exited"

\* C37: the polling send is completed with success only by the callback
\* of a tick after the second, that is on a snapshot captured at the
\* third tick or later.
C37_EarlySnapshotNeverCompletes ==
    (pc = "returned" /\ result.status = "success") => result.tick > 2

\* C36: at a tick whose snapshot shows an error or completion pattern and
\* no prompt, with the cooldown after the last event elapsed, an event of
\* a category the snapshot shows has been emitted, at this tick or before.
C36_VisibleEventEmitted ==
    [][(/\ now' # now
        /\ terminalContent'.v # 0
        /\ terminalContent'.matches # {}
        /\ "prompt" \notin terminalContent'.matches
        /\ EventDue(now')) =>
            \E i \in 1..Len(effects') :
                /\ effects'[i].kind = "event"
                /\ effects'[i].category \in terminalContent'.matches]_vars

\* C35: when closeAll has ended, every registered session is of a launch
\* invoked after closeAll was called.
C35_NoLaunchLeftBehind ==
    closeAllCall.pc = "done" => \A sid \in sessions : sid > closeAllCall.called

\* C39: every session in the registry has its ready flag set.
C39_RegisteredIsReady ==
    \A sid \in sessions : session[sid].ready

\* A session is registered and has been sent a command while the launch
\* of another is in its wait, its flag not yet set.
C39_Witness ==
    \E sid \in sessions, other \in DOMAIN session :
        /\ session[sid].ready /\ session[sid].commandCount >= 1
        /\ other \notin sessions /\ ~session[other].ready
        /\ InFlight("launch", other) = 1

\* The "response" entries of a log.
ResponseEntries(log) == Cardinality({i \in 1..Len(log) : log[i] = "response"})

\* C40: the command counter of a session is the number of command entries
\* of its log, and its log never holds more response entries than command
\* entries.
C40_CounterMatchesLog ==
    \A sid \in DOMAIN session :
        /\ session[sid].commandCount = Commands(session[sid].sessionLog)
        /\ ResponseEntries(session[sid].sessionLog) <= Commands(session[sid].sessionLog)

\* Two sends overlap on a session: both commands are counted and logged,
\* one has been answered and the other is still waiting.
C40_Witness ==
    \E sid \in sessions :
        /\ session[sid].commandCount = 2
        /\ session[sid].sessionLog = <<"screenshot", "command", "command", "response">>
        /\ InFlight("send", sid) = 1

\* C34: the session of a launch is put in the registry at most once, and
\* exactly when the launch returns; while the launch waits the ready flag
\* is false and the fallback timer is pending, and the firing of that
\* timer leaves the launch returned; once the launch has returned the
\* flag is true, and the flag never goes back to false.
C34_LaunchSettlesOnce ==
    /\ [](/\ started.registered <= 1
          /\ (launchCall.pc = "returned" <=> started.registered = 1)
          /\ launchCall.pc = "waiting" => (~started.sessionReady /\ startupTimeout)
          /\ launchCall.pc = "returned" => started.sessionReady)
    /\ [][/\ started.sessionReady => started'.sessionReady
          /\ (startupTimeout /\ ~startupTimeout') => launchCall'.pc = "returned"]_vars

\* resolve has been called twice, by the detection of the trust prompt
\* (approved with '1' and Enter) and by the fallback timer, and the
\* session is in the registry once.
C34_Witness ==
    /\ launchCall.pc = "returned"
    /\ started.registered = 1 /\ started.sessionReady
    /\ started.stdin = 2
    /\ ~startupTimeout

\* C38: once the launch of part_001 has returned, its checkReady interval
\* is cleared and so is every checkAuth interval it created.
C38_NoPollAfterReturn ==
    (launchCall.variant = "vision" /\ launchCall.pc = "returned") =>
        /\ ~checkReady
        /\ \A id \in DOMAIN checkAuth : ~checkAuth[id].live
====
